---- MODULE Spec2Model ----
(***************************************************************************)
(* The workspace bridge of openwork: the IPC handlers of                   *)
(* src/main/ipc/models.ts (workspace:get/set/select/loadFromDisk/readFile/ *)
(* readBinaryFile), the thread store and watcher they drive, and the HITL  *)
(* protocol of the event stream.                                           *)
(*                                                                         *)
(* Strings are sequences of one-character strings, so that String          *)
(* .startsWith, path.join and path.resolve are computed character by       *)
(* character, as Node computes them.                                       *)
(***************************************************************************)
EXTENDS Integers, Sequences, FiniteSets, TLC

(***************************************************************************)
(* Strings and the posix path functions of Node used by the handlers.      *)
(***************************************************************************)
\* null and undefined, distinct from every string (a string's elements are
\* single characters)
Null == <<"null">>

Undefined == <<"undefined">>

Slash == <<"/">>

EmptyStr == <<>>

\* JavaScript truthiness of a `string | null | undefined` value
Truthy(s) == s # Null /\ s # Undefined /\ s # EmptyStr

\* String.prototype.startsWith
StartsWith(s, p) == Len(p) <= Len(s) /\ SubSeq(s, 1, Len(p)) = p

\* the '/'-separated segments of a string (String.prototype.split('/'))
RECURSIVE SplitFrom(_, _, _)
SplitFrom(s, i, cur) ==
    IF i > Len(s) THEN <<cur>>
    ELSE IF s[i] = "/" THEN <<cur>> \o SplitFrom(s, i + 1, <<>>)
    ELSE SplitFrom(s, i + 1, Append(cur, s[i]))

Split(s) == SplitFrom(s, 1, <<>>)

\* segments joined by '/'
RECURSIVE JoinSegs(_)
JoinSegs(segs) ==
    IF Len(segs) = 0 THEN <<>>
    ELSE IF Len(segs) = 1 THEN segs[1]
    ELSE segs[1] \o Slash \o JoinSegs(Tail(segs))

DotSeg == <<".">>

DotDotSeg == <<".", ".">>

\* normalizeString of Node's path module: drops '' and '.', resolves '..'
RECURSIVE NormalizeSegs(_, _, _)
NormalizeSegs(segs, acc, allowAboveRoot) ==
    IF Len(segs) = 0 THEN acc
    ELSE LET s == Head(segs)
             rest == Tail(segs)
         IN  IF s = <<>> \/ s = DotSeg
               THEN NormalizeSegs(rest, acc, allowAboveRoot)
             ELSE IF s = DotDotSeg
               THEN IF Len(acc) > 0 /\ acc[Len(acc)] # DotDotSeg
                      THEN NormalizeSegs(rest, SubSeq(acc, 1, Len(acc) - 1), allowAboveRoot)
                    ELSE IF allowAboveRoot
                      THEN NormalizeSegs(rest, Append(acc, s), allowAboveRoot)
                    ELSE NormalizeSegs(rest, acc, allowAboveRoot)
             ELSE NormalizeSegs(rest, Append(acc, s), allowAboveRoot)

IsAbsolute(p) == Len(p) > 0 /\ p[1] = "/"

\* path.normalize (posix)
PathNormalize(p) ==
    IF Len(p) = 0 THEN DotSeg
    ELSE LET abs == IsAbsolute(p)
             trailing == p[Len(p)] = "/"
             body == JoinSegs(NormalizeSegs(Split(p), <<>>, ~abs))
         IN  IF Len(body) = 0
               THEN IF abs THEN Slash
                    ELSE IF trailing THEN DotSeg \o Slash ELSE DotSeg
             ELSE (IF abs THEN Slash ELSE <<>>) \o body
                  \o (IF trailing THEN Slash ELSE <<>>)

\* path.join(a, b) (posix): the non-empty arguments joined by '/', normalized
PathJoin(a, b) ==
    LET joined == IF Len(a) = 0 THEN b
                  ELSE IF Len(b) = 0 THEN a
                  ELSE a \o Slash \o b
    IN  IF Len(joined) = 0 THEN DotSeg ELSE PathNormalize(joined)

\* the working directory of the main process, which path.resolve prepends
\* to a relative path
Cwd == <<"/", "h">>

\* path.resolve(p) (posix): absolute, normalized, without a trailing '/'
PathResolve(p) ==
    LET full == IF IsAbsolute(p) THEN p
                ELSE IF Len(p) = 0 THEN Cwd
                ELSE Cwd \o Slash \o p
        body == JoinSegs(NormalizeSegs(Split(full), <<>>, FALSE))
    IN  Slash \o body

(***************************************************************************)
(* The filesystem: a static tree.  dirs and files are absolute normalized  *)
(* paths; bad are the paths on which readdir, stat or readFile fails with  *)
(* an I/O error although the entry exists.                                 *)
(***************************************************************************)
\* the path the operating system resolves a handed-in path to (no symlinks
\* are modelled, so resolution is lexical, relative to the process's cwd)
OsPath(p) == PathResolve(p)

Exists(tree, p) == OsPath(p) \in tree.dirs \cup tree.files

IsDirectory(tree, p) == OsPath(p) \in tree.dirs

\* fs.readdir / fs.stat / fs.readFile reject (the await throws)
IoFails(tree, p) == ~Exists(tree, p) \/ OsPath(p) \in tree.bad

\* the last segment of a path
BaseName(p) == LET segs == Split(p) IN segs[Len(segs)]

\* the path without its last segment
DirName(p) ==
    LET segs == Split(p)
    IN  IF Len(segs) <= 2 THEN Slash ELSE JoinSegs(SubSeq(segs, 1, Len(segs) - 1))

\* the names fs.readdir(dirPath) yields
EntryNames(tree, dirPath) ==
    { BaseName(p) : p \in { q \in tree.dirs \cup tree.files :
                              q # Slash /\ DirName(q) = OsPath(dirPath) } }

\* a set as a sequence, in the order the directory happens to be stored in
RECURSIVE SetToSeq(_)
SetToSeq(S) ==
    IF S = {} THEN <<>>
    ELSE LET x == CHOOSE y \in S : TRUE IN <<x>> \o SetToSeq(S \ {x})

(***************************************************************************)
(* workspace:loadFromDisk's readDir: the recursive listing.                *)
(***************************************************************************)
NodeModules == <<"n", "o", "d", "e", "_", "m", "o", "d", "u", "l", "e", "s">>

\* Excluded with the bug of matching 'node_modules' as a prefix too
ExcludedByPrefix(name) == StartsWith(name, <<".">>) \/ StartsWith(name, NodeModules)

\* entry.name.startsWith('.') || entry.name === 'node_modules'
Excluded(name) == StartsWith(name, <<".">>) \/ name = NodeModules

\* the state of one traversal: the files pushed so far, the directories
\* fs.readdir was called on, the paths fs.stat was called on, and whether an
\* await threw
NoListing == [threw |-> FALSE, files |-> <<>>, visited |-> {}, statted |-> {}]

RECURSIVE ReadDir(_, _, _, _)
RECURSIVE ReadEntries(_, _, _, _, _)

\* the `for (const entry of entries)` loop of readDir
ReadEntries(tree, dirPath, relativePath, entries, acc) ==
    IF acc.threw \/ Len(entries) = 0 THEN acc
    ELSE LET name == Head(entries)
             fullPath == PathJoin(dirPath, name)
             relPath == IF relativePath # EmptyStr
                          THEN relativePath \o Slash \o name
                          ELSE name
         IN  IF Excluded(name)
               THEN ReadEntries(tree, dirPath, relativePath, Tail(entries), acc)
             ELSE IF IsDirectory(tree, fullPath)
               THEN ReadEntries(tree, dirPath, relativePath, Tail(entries),
                        ReadDir(tree, fullPath, relPath,
                            [acc EXCEPT !.files =
                                Append(@, [path |-> Slash \o relPath, is_dir |-> TRUE])]))
             ELSE IF IoFails(tree, fullPath)
               THEN [acc EXCEPT !.threw = TRUE, !.statted = @ \cup {fullPath}]
             ELSE ReadEntries(tree, dirPath, relativePath, Tail(entries),
                      [acc EXCEPT !.statted = @ \cup {fullPath},
                                  !.files =
                          Append(@, [path |-> Slash \o relPath, is_dir |-> FALSE])])

\* ReadDir with a try/catch around the fs.readdir of a subdirectory: the
\* subtree is skipped and the traversal goes on
ReadDirSkipsSubtree(tree, dirPath, relativePath, acc) ==
    IF acc.threw THEN acc
    ELSE IF IoFails(tree, dirPath) \/ ~IsDirectory(tree, dirPath)
      THEN [acc EXCEPT !.threw = (relativePath = EmptyStr),
                       !.visited = @ \cup {dirPath}]
    ELSE ReadEntries(tree, dirPath, relativePath,
                     SetToSeq(EntryNames(tree, dirPath)),
                     [acc EXCEPT !.visited = @ \cup {dirPath}])

\* readDir(dirPath, relativePath): fs.readdir, then the loop; a rejected
\* await propagates to the caller
ReadDir(tree, dirPath, relativePath, acc) ==
    IF acc.threw THEN acc
    ELSE IF IoFails(tree, dirPath) \/ ~IsDirectory(tree, dirPath)
      THEN [acc EXCEPT !.threw = TRUE, !.visited = @ \cup {dirPath}]
    ELSE ReadEntries(tree, dirPath, relativePath,
                     SetToSeq(EntryNames(tree, dirPath)),
                     [acc EXCEPT !.visited = @ \cup {dirPath}])

(***************************************************************************)
(* workspace:readFile / readBinaryFile: the virtual path and the check.    *)
(***************************************************************************)
\* filePath.startsWith('/') ? filePath.slice(1) : filePath
RelativePath(filePath) ==
    IF StartsWith(filePath, Slash) THEN Tail(filePath) ELSE filePath

\* path.join(workspacePath, relativePath)
FullPath(workspacePath, filePath) == PathJoin(workspacePath, RelativePath(filePath))

\* resolvedPath.startsWith(resolvedWorkspace)
InsideWorkspace(workspacePath, fullPath) ==
    StartsWith(PathResolve(fullPath), PathResolve(workspacePath))

(***************************************************************************)
(* The watcher service (../services/workspace-watcher): one list of live   *)
(* watch handles per session, each handle named by the path it watches.    *)
(***************************************************************************)
\* startWatching(threadId, path): the session's old handles are released,
\* one new handle is created
StartWatching(w, sid, path) == [w EXCEPT ![sid] = <<path>>]

\* stopWatching(threadId): a no-op when the session has no watch
StopWatching(w, sid) == [w EXCEPT ![sid] = <<>>]

(***************************************************************************)
(* State.                                                                  *)
(***************************************************************************)
VARIABLES
    threads,    \* the thread store (../db): session id -> thread row
    settings,   \* the electron-store 'settings'
    watches,    \* the watcher service: session id -> live watch handles
    calls,      \* the IPC invocations in flight, one per slot
    last,       \* the slot of the invocation that returned most recently, or 0
    fs,         \* the filesystem tree
    tools,      \* the HITL protocol: tool-call id -> its request's state
    events,     \* the session's event stream, in production order
    apiKeys,    \* the credential store (../storage): provider -> its key
    catalog     \* the AVAILABLE_MODELS array

wsVars == <<threads, settings, watches, calls, last, fs>>

hitlVars == <<tools, events>>

modelVars == <<apiKeys, catalog>>

vars == <<threads, settings, watches, calls, last, fs, tools, events,
          apiKeys, catalog>>

\* the session ids a renderer sends; NoSession is an absent threadId
Sessions == {"t1", "t2"}

NoSession == "none"

\* how many IPC invocations may be in flight at once
MaxCalls == 2

Slots == 1 .. MaxCalls

\* directories and files of the model's disk
WorkA == <<"/", "w">>

WorkB == <<"/", "v">>

WorkX == <<"/", "w", "X">>

\* a thread's metadata object: the fields the handlers read and keep
EmptyObj == [workspacePath |-> Undefined, title |-> Undefined]

\* a NULL metadata column
NullColumn == [isNull |-> TRUE, obj |-> EmptyObj, corrupt |-> FALSE]

\* a metadata column whose text is not JSON
CorruptColumn == [isNull |-> FALSE, obj |-> EmptyObj, corrupt |-> TRUE]

\* JSON.stringify of a metadata object (undefined fields are dropped, which
\* is how EmptyObj already represents them)
JsonStringify(obj) == [isNull |-> FALSE, obj |-> obj, corrupt |-> FALSE]

\* JSON.parse of a metadata column
JsonParse(col) == col.obj

\* JSON.parse(thread.metadata) throws a SyntaxError
ParseThrows(thread) ==
    thread.exists /\ ~thread.metadata.isNull /\ thread.metadata.corrupt

NoThread == [exists |-> FALSE, metadata |-> NullColumn]

\* thread?.metadata ? JSON.parse(thread.metadata) : {}
MetadataOf(thread) ==
    IF thread.exists /\ ~thread.metadata.isNull
      THEN JsonParse(thread.metadata)
      ELSE EmptyObj

\* getThread(threadId)
GetThread(sid) == IF sid \in Sessions THEN threads[sid] ELSE NoThread

\* what a handler returns; tag is "value" for a plain return value, "ok"
\* for {success: true, ...} and "fail" for {success: false, error}
NoRes == [tag |-> "none", value |-> Null, error |-> "", files |-> <<>>,
          content |-> Null, workspacePath |-> Null,
          size |-> Null, modified_at |-> Null]

Value(v) == [NoRes EXCEPT !.tag = "value", !.value = v]

Failure(msg) == [NoRes EXCEPT !.tag = "fail", !.error = msg]

ErrNoWorkspace == "No workspace folder linked"

ErrAccessDenied == "Access denied: path outside workspace"

ErrIsDirectory == "Cannot read directory as file"

\* e.message of a rejected fs call
ErrIo == "EIO"

\* the handler's promise rejects: the error reaches the caller of invoke
Thrown(msg) == [NoRes EXCEPT !.tag = "threw", !.error = msg]

ErrSyntax == "SyntaxError"

\* an invocation: the channel, its arguments, where it is suspended, its
\* locals (workspacePath or selectedPath in loc, fullPath in full, the
\* fs.Stats in stat), the result it returned and the fs calls it issued
IdleCall == [op |-> "none", sid |-> NoSession, arg |-> Null, pc |-> "idle",
             loc |-> Null, full |-> Null, stat |-> Null, res |-> NoRes,
             io |-> {}]

NewCall(op, sid, arg, pc) ==
    [IdleCall EXCEPT !.op = op, !.sid = sid, !.arg = arg, !.pc = pc]

\* slot c's invocation returns res, having issued the fs calls io on the way
Return(c, res, io) ==
    /\ calls' = [calls EXCEPT ![c].pc = "done", ![c].res = res,
                              ![c].io = @ \cup io]
    /\ last' = c

\* slot c's invocation suspends at its next await
Suspend(c, pc) ==
    /\ calls' = [calls EXCEPT ![c].pc = pc]
    /\ UNCHANGED last

\* the reply reaches the renderer and the slot is free again
Reply(c) ==
    /\ calls[c].pc = "done"
    /\ calls' = [calls EXCEPT ![c] = IdleCall]
    /\ last' = IF last = c THEN 0 ELSE last
    /\ UNCHANGED <<threads, settings, watches, fs, hitlVars, modelVars>>

(***************************************************************************)
(* workspace:get                                                           *)
(***************************************************************************)
\* store.get('workspacePath', null)
GlobalWorkspace == IF settings.workspacePath = Undefined THEN Null
                   ELSE settings.workspacePath

\* without a threadId the handler returns the global setting at once
GetGlobal(c) ==
    /\ calls[c].pc = "idle"
    /\ calls' = [calls EXCEPT ![c] =
            [NewCall("get", NoSession, Null, "done") EXCEPT
                !.res = Value(GlobalWorkspace)]]
    /\ last' = c
    /\ UNCHANGED <<threads, settings, watches, fs, hitlVars, modelVars>>

\* with a threadId it suspends at `await import('../db')`
GetCall(c, sid) ==
    /\ calls[c].pc = "idle"
    /\ calls' = [calls EXCEPT ![c] = NewCall("get", sid, Null, "import")]
    /\ UNCHANGED <<threads, settings, watches, last, fs, hitlVars, modelVars>>

\* GetRun with the bug of falling back to the global setting for a thread
\* without a binding
GetRunFallsBack(c) ==
    /\ calls[c].op = "get" /\ calls[c].pc = "import"
    /\ LET wp == MetadataOf(GetThread(calls[c].sid)).workspacePath
       IN  Return(c, Value(IF Truthy(wp) THEN wp ELSE GlobalWorkspace), {})
    /\ UNCHANGED <<threads, settings, watches, fs, hitlVars, modelVars>>

\* metadata.workspacePath || null, null too for a thread without metadata;
\* JSON.parse is not guarded
GetRun(c) ==
    /\ calls[c].op = "get" /\ calls[c].pc = "import"
    /\ LET wp == MetadataOf(GetThread(calls[c].sid)).workspacePath
       IN  IF ParseThrows(GetThread(calls[c].sid))
             THEN Return(c, Thrown(ErrSyntax), {})
             ELSE Return(c, Value(IF Truthy(wp) THEN wp ELSE Null), {})
    /\ UNCHANGED <<threads, settings, watches, fs, hitlVars, modelVars>>

(***************************************************************************)
(* workspace:set                                                           *)
(***************************************************************************)
\* without a threadId: store.set or store.delete, and newPath is returned
SetGlobal(c, newPath) ==
    /\ calls[c].pc = "idle"
    /\ settings' = [settings EXCEPT !.workspacePath =
                        IF Truthy(newPath) THEN newPath ELSE Undefined]
    /\ calls' = [calls EXCEPT ![c] =
            [NewCall("set", NoSession, newPath, "done") EXCEPT
                !.res = Value(newPath)]]
    /\ last' = c
    /\ UNCHANGED <<threads, watches, fs, hitlVars, modelVars>>

SetCall(c, sid, newPath) ==
    /\ calls[c].pc = "idle"
    /\ calls' = [calls EXCEPT ![c] = NewCall("set", sid, newPath, "import")]
    /\ UNCHANGED <<threads, settings, watches, last, fs, hitlVars, modelVars>>

\* BindThread with the bug of writing a new metadata object that holds the
\* path alone
BindThreadFresh(sid, p) ==
    [threads EXCEPT ![sid].metadata =
        JsonStringify([EmptyObj EXCEPT !.workspacePath = p])]

\* metadata.workspacePath = p; updateThread(threadId, {metadata: ...})
BindThread(sid, p) ==
    [threads EXCEPT ![sid].metadata =
        JsonStringify([MetadataOf(threads[sid]) EXCEPT !.workspacePath = p])]

\* SetWatch with the bug of leaving a session that is already watched alone
SetWatchKeepsOld(sid, newPath) ==
    IF Truthy(newPath)
      THEN IF watches[sid] = <<>> THEN StartWatching(watches, sid, newPath)
           ELSE watches
      ELSE StopWatching(watches, sid)

\* SetWatch with the bug of not stopping the watch when the binding is cleared
SetWatchNeverStops(sid, newPath) ==
    IF Truthy(newPath) THEN StartWatching(watches, sid, newPath)
    ELSE watches

\* the watcher update of workspace:set
SetWatch(sid, newPath) ==
    IF Truthy(newPath) THEN StartWatching(watches, sid, newPath)
    ELSE StopWatching(watches, sid)

\* SetRun with the bug of creating the thread row when there is none
SetRunUpserts(c) ==
    /\ calls[c].op = "set" /\ calls[c].pc = "import"
    /\ LET sid == calls[c].sid
           newPath == calls[c].arg
       IN  /\ threads' = [threads EXCEPT ![sid] =
                    [exists |-> TRUE,
                     metadata |-> JsonStringify(
                        [MetadataOf(threads[sid]) EXCEPT !.workspacePath = newPath])]]
           /\ watches' = SetWatch(sid, newPath)
           /\ Return(c, Value(newPath), {})
    /\ UNCHANGED <<settings, fs, hitlVars, modelVars>>

\* after the import: the thread is read, updated and the watcher follows,
\* in one synchronous run
SetRun(c) ==
    /\ calls[c].op = "set" /\ calls[c].pc = "import"
    /\ LET sid == calls[c].sid
           newPath == calls[c].arg
       IN  IF ~GetThread(sid).exists
             THEN /\ Return(c, Value(Null), {})
                  /\ UNCHANGED <<threads, watches>>
           ELSE IF ParseThrows(GetThread(sid))
             THEN /\ Return(c, Thrown(ErrSyntax), {})
                  /\ UNCHANGED <<threads, watches>>
             ELSE /\ threads' = BindThread(sid, newPath)
                  /\ watches' = SetWatch(sid, newPath)
                  /\ Return(c, Value(newPath), {})
    /\ UNCHANGED <<settings, fs, hitlVars, modelVars>>

(***************************************************************************)
(* workspace:select                                                        *)
(***************************************************************************)
\* the handler suspends at `await dialog.showOpenDialog(...)`
SelectCall(c, sid) ==
    /\ calls[c].pc = "idle"
    /\ calls' = [calls EXCEPT ![c] = NewCall("select", sid, Null, "dialog")]
    /\ UNCHANGED <<threads, settings, watches, last, fs, hitlVars, modelVars>>

\* result.canceled || result.filePaths.length === 0
SelectCancel(c) ==
    /\ calls[c].op = "select" /\ calls[c].pc = "dialog"
    /\ Return(c, Value(Null), {})
    /\ UNCHANGED <<threads, settings, watches, fs, hitlVars, modelVars>>

\* a folder was picked and there is no threadId: the global setting
SelectGlobal(c, selectedPath) ==
    /\ calls[c].op = "select" /\ calls[c].pc = "dialog"
    /\ calls[c].sid = NoSession
    /\ settings' = [settings EXCEPT !.workspacePath = selectedPath]
    /\ Return(c, Value(selectedPath), {})
    /\ UNCHANGED <<threads, watches, fs, hitlVars, modelVars>>

\* a folder was picked for a thread: the handler suspends at the import
SelectPick(c, selectedPath) ==
    /\ calls[c].op = "select" /\ calls[c].pc = "dialog"
    /\ calls[c].sid # NoSession
    /\ calls' = [calls EXCEPT ![c].pc = "import", ![c].loc = selectedPath]
    /\ UNCHANGED <<threads, settings, watches, last, fs, hitlVars, modelVars>>

\* after the import: an existing thread is bound and watched; the selected
\* path is returned either way
SelectRun(c) ==
    /\ calls[c].op = "select" /\ calls[c].pc = "import"
    /\ LET sid == calls[c].sid
           selectedPath == calls[c].loc
       IN  IF ParseThrows(GetThread(sid))
             THEN /\ Return(c, Thrown(ErrSyntax), {})
                  /\ UNCHANGED <<threads, watches>>
             ELSE /\ IF GetThread(sid).exists
                       THEN /\ threads' = BindThread(sid, selectedPath)
                            /\ watches' = StartWatching(watches, sid, selectedPath)
                       ELSE UNCHANGED <<threads, watches>>
                  /\ Return(c, Value(selectedPath), {})
    /\ UNCHANGED <<settings, fs, hitlVars, modelVars>>

(***************************************************************************)
(* workspace:loadFromDisk                                                  *)
(***************************************************************************)
LoadCall(c, sid) ==
    /\ calls[c].pc = "idle"
    /\ calls' = [calls EXCEPT ![c] = NewCall("load", sid, Null, "import")]
    /\ UNCHANGED <<threads, settings, watches, last, fs, hitlVars, modelVars>>

\* BoundPath with the bug of falling back to the global setting when the
\* thread has no binding
BoundPathOrGlobal(sid) ==
    IF Truthy(MetadataOf(GetThread(sid)).workspacePath)
      THEN MetadataOf(GetThread(sid)).workspacePath
      ELSE settings.workspacePath

\* metadata.workspacePath as the handlers of loadFromDisk, readFile and
\* readBinaryFile read it
BoundPath(sid) == MetadataOf(GetThread(sid)).workspacePath

\* after the import: the binding is read; without one the call fails at
\* once, with one readDir is entered and suspends at its first fs.readdir
LoadStart(c) ==
    /\ calls[c].op = "load" /\ calls[c].pc = "import"
    /\ LET workspacePath == BoundPath(calls[c].sid)
       IN  IF ParseThrows(GetThread(calls[c].sid))
             THEN Return(c, Thrown(ErrSyntax), {})
           ELSE IF ~Truthy(workspacePath)
             THEN Return(c, Failure(ErrNoWorkspace), {})
             ELSE /\ calls' = [calls EXCEPT ![c].pc = "readdir",
                                            ![c].loc = workspacePath]
                  /\ UNCHANGED last
    /\ UNCHANGED <<threads, settings, watches, fs, hitlVars, modelVars>>

\* the fs calls a traversal issued
ListingIo(listing) ==
    { <<"readdir", d>> : d \in listing.visited }
        \cup { <<"stat", f>> : f \in listing.statted }

\* what `await readDir(workspacePath)` comes to on the tree
Traverse(workspacePath) == ReadDir(fs, workspacePath, EmptyStr, NoListing)

\* LoadFinish with the bug of starting the watch before the traversal
LoadFinishWatchesFirst(c) ==
    /\ calls[c].op = "load" /\ calls[c].pc = "readdir"
    /\ LET sid == calls[c].sid
           workspacePath == calls[c].loc
           listing == Traverse(workspacePath)
       IN  /\ watches' = StartWatching(watches, sid, workspacePath)
           /\ IF listing.threw
                THEN Return(c, Failure(ErrIo), ListingIo(listing))
                ELSE Return(c, [NoRes EXCEPT !.tag = "ok",
                                             !.files = listing.files,
                                             !.workspacePath = workspacePath],
                            ListingIo(listing))
    /\ UNCHANGED <<threads, settings, fs, hitlVars, modelVars>>

\* the traversal (reads of the tree, which touch no state of the program)
\* and the continuation after it: the watch is started with the path read
\* before the traversal and the listing is returned, or the catch block
\* returns the failure
LoadFinish(c) ==
    /\ calls[c].op = "load" /\ calls[c].pc = "readdir"
    /\ LET sid == calls[c].sid
           workspacePath == calls[c].loc
           listing == Traverse(workspacePath)
       IN  IF listing.threw
             THEN /\ Return(c, Failure(ErrIo), ListingIo(listing))
                  /\ UNCHANGED watches
             ELSE /\ watches' = StartWatching(watches, sid, workspacePath)
                  /\ Return(c, [NoRes EXCEPT !.tag = "ok",
                                             !.files = listing.files,
                                             !.workspacePath = workspacePath],
                            ListingIo(listing))
    /\ UNCHANGED <<threads, settings, fs, hitlVars, modelVars>>

(***************************************************************************)
(* workspace:readFile and workspace:readBinaryFile                         *)
(***************************************************************************)
ReadOps == {"readFile", "readBinaryFile"}

ReadCall(c, op, sid, filePath) ==
    /\ calls[c].pc = "idle"
    /\ calls' = [calls EXCEPT ![c] = NewCall(op, sid, filePath, "import")]
    /\ UNCHANGED <<threads, settings, watches, last, fs, hitlVars, modelVars>>

\* ReadStart with the bug of calling fs.stat before the security check
ReadStartStatsFirst(c) ==
    /\ calls[c].op \in ReadOps /\ calls[c].pc = "import"
    /\ LET workspacePath == BoundPath(calls[c].sid)
       IN  IF ParseThrows(GetThread(calls[c].sid))
             THEN Return(c, Thrown(ErrSyntax), {})
           ELSE IF ~Truthy(workspacePath)
             THEN Return(c, Failure(ErrNoWorkspace), {})
           ELSE LET fullPath == FullPath(workspacePath, calls[c].arg)
                IN  IF IoFails(fs, fullPath)
                      THEN /\ calls' = [calls EXCEPT
                                  ![c].pc = "done",
                                  ![c].loc = workspacePath,
                                  ![c].full = fullPath,
                                  ![c].io = {<<"stat", fullPath>>},
                                  ![c].res = Failure(ErrIo)]
                           /\ last' = c
                    ELSE IF ~InsideWorkspace(workspacePath, fullPath)
                      THEN /\ calls' = [calls EXCEPT
                                  ![c].pc = "done",
                                  ![c].loc = workspacePath,
                                  ![c].full = fullPath,
                                  ![c].io = {<<"stat", fullPath>>},
                                  ![c].res = Failure(ErrAccessDenied)]
                           /\ last' = c
                      ELSE /\ calls' = [calls EXCEPT
                                  ![c].pc = "stat",
                                  ![c].loc = workspacePath,
                                  ![c].full = fullPath]
                           /\ UNCHANGED last
    /\ UNCHANGED <<threads, settings, watches, fs, hitlVars, modelVars>>

\* after the import: the binding, the full path and the security check;
\* a path that passes suspends at `await fs.stat(fullPath)`
ReadStart(c) ==
    /\ calls[c].op \in ReadOps /\ calls[c].pc = "import"
    /\ LET workspacePath == BoundPath(calls[c].sid)
       IN  IF ParseThrows(GetThread(calls[c].sid))
             THEN Return(c, Thrown(ErrSyntax), {})
           ELSE IF ~Truthy(workspacePath)
             THEN Return(c, Failure(ErrNoWorkspace), {})
           ELSE LET fullPath == FullPath(workspacePath, calls[c].arg)
                IN  IF ~InsideWorkspace(workspacePath, fullPath)
                      THEN /\ calls' = [calls EXCEPT
                                  ![c].pc = "done",
                                  ![c].loc = workspacePath,
                                  ![c].full = fullPath,
                                  ![c].res = Failure(ErrAccessDenied)]
                           /\ last' = c
                      ELSE /\ calls' = [calls EXCEPT
                                  ![c].pc = "stat",
                                  ![c].loc = workspacePath,
                                  ![c].full = fullPath]
                           /\ UNCHANGED last
    /\ UNCHANGED <<threads, settings, watches, fs, hitlVars, modelVars>>

\* the fs.Stats of an entry: every file is as long as its name and has a
\* modification time of its own
Stat(tree, p) ==
    [isDirectory |-> IsDirectory(tree, p), size |-> Len(OsPath(p)),
     mtime |-> <<"mtime">> \o OsPath(p)]

\* stat.mtime.toISOString()
ToISOString(mtime) == <<"iso">> \o Tail(mtime)

\* ReadStat with the bug of not refusing a directory
ReadStatAnyEntry(c) ==
    /\ calls[c].op \in ReadOps /\ calls[c].pc = "stat"
    /\ LET fullPath == calls[c].full
           io == {<<"stat", fullPath>>}
       IN  IF IoFails(fs, fullPath)
             THEN Return(c, Failure(ErrIo), io)
           ELSE /\ calls' = [calls EXCEPT ![c].pc = "read",
                                          ![c].stat = Stat(fs, fullPath),
                                          ![c].io = @ \cup io]
                /\ UNCHANGED last
    /\ UNCHANGED <<threads, settings, watches, fs, hitlVars, modelVars>>

\* fs.stat(fullPath) settled: a rejection goes to the catch block, a
\* directory is refused, a file suspends at `await fs.readFile(fullPath)`
ReadStat(c) ==
    /\ calls[c].op \in ReadOps /\ calls[c].pc = "stat"
    /\ LET fullPath == calls[c].full
           io == {<<"stat", fullPath>>}
       IN  IF IoFails(fs, fullPath)
             THEN Return(c, Failure(ErrIo), io)
           ELSE IF IsDirectory(fs, fullPath)
             THEN Return(c, Failure(ErrIsDirectory), io)
           ELSE /\ calls' = [calls EXCEPT ![c].pc = "read",
                                          ![c].stat = Stat(fs, fullPath),
                                          ![c].io = @ \cup io]
                /\ UNCHANGED last
    /\ UNCHANGED <<threads, settings, watches, fs, hitlVars, modelVars>>

\* the bytes of a file: every file holds its own name
FileBytes(p) == OsPath(p)

\* buffer.toString('base64'), against the 'utf-8' decoding of readFile
Encode(op, bytes) ==
    IF op = "readBinaryFile" THEN <<"base64:">> \o bytes ELSE bytes

\* fs.readFile(fullPath) settled: the content is returned
ReadContent(c) ==
    /\ calls[c].op \in ReadOps /\ calls[c].pc = "read"
    /\ LET fullPath == calls[c].full
       IN  Return(c, [NoRes EXCEPT !.tag = "ok",
                        !.content = Encode(calls[c].op, FileBytes(fullPath)),
                        !.size = calls[c].stat.size,
                        !.modified_at = ToISOString(calls[c].stat.mtime)],
                  {<<"readFile", fullPath>>})
    /\ UNCHANGED <<threads, settings, watches, fs, hitlVars, modelVars>>

(***************************************************************************)
(* The model registry: the catalog, the 'settings' store's defaultModel    *)
(* and the credential store (../storage) behind the models:* channels.     *)
(***************************************************************************)
\* the PROVIDERS array, by id
PROVIDERS == <<"anthropic", "openai", "google", "zai">>

\* entries of the AVAILABLE_MODELS array: the fields the handlers use
AVAILABLE_MODELS ==
    << [id |-> <<"claude-opus-4-5-20251101">>, provider |-> "anthropic",
        available |-> TRUE],
       [id |-> <<"claude-sonnet-4-5-20250929">>, provider |-> "anthropic",
        available |-> TRUE],
       [id |-> <<"gpt-5.2">>, provider |-> "openai", available |-> TRUE],
       [id |-> <<"glm-4.5v">>, provider |-> "zai", available |-> TRUE] >>

\* the fallback of models:getDefault
FallbackModel == <<"claude-sonnet-4-5-20250929">>

\* setApiKey(provider, apiKey)
SetApiKey(store, provider, apiKey) == [store EXCEPT ![provider] = apiKey]

\* deleteApiKey(provider)
DeleteApiKey(store, provider) == [store EXCEPT ![provider] = Undefined]

\* getApiKey(provider): undefined when the provider has no key
GetApiKey(store, provider) == store[provider]

\* hasApiKey(provider)
HasApiKey(store, provider) == store[provider] # Undefined

\* a handler without an await: it runs to its return when it is invoked
Invoke(c, op, arg, res) ==
    /\ calls[c].pc = "idle"
    /\ calls' = [calls EXCEPT ![c] =
            [NewCall(op, NoSession, arg, "done") EXCEPT !.res = res]]
    /\ last' = c

\* { ...model, available: hasApiKey(model.provider) }
Decorate(model) == [model EXCEPT !.available = HasApiKey(apiKeys, model.provider)]

\* ModelsList with the bug of returning the catalog entries as stored
ModelsListStored(c) ==
    /\ Invoke(c, "models:list", Null, Value(catalog))
    /\ UNCHANGED <<threads, settings, watches, fs, hitlVars, modelVars>>

\* models:list: a new array of decorated copies
ModelsList(c) ==
    /\ Invoke(c, "models:list", Null,
              Value([i \in DOMAIN catalog |-> Decorate(catalog[i])]))
    /\ UNCHANGED <<threads, settings, watches, fs, hitlVars, modelVars>>

\* models:listProviders: { ...provider, hasApiKey: hasApiKey(provider.id) }
ModelsListProviders(c) ==
    /\ Invoke(c, "models:listProviders", Null,
              Value([i \in DOMAIN PROVIDERS |->
                        [id |-> PROVIDERS[i],
                         hasApiKey |-> HasApiKey(apiKeys, PROVIDERS[i])]]))
    /\ UNCHANGED <<threads, settings, watches, fs, hitlVars, modelVars>>

\* models:getDefault: store.get('defaultModel', fallback)
ModelsGetDefault(c) ==
    /\ Invoke(c, "models:getDefault", Null,
              Value(IF settings.defaultModel = Undefined THEN FallbackModel
                    ELSE settings.defaultModel))
    /\ UNCHANGED <<threads, settings, watches, fs, hitlVars, modelVars>>

\* models:setDefault: store.set('defaultModel', modelId)
ModelsSetDefault(c, modelId) ==
    /\ Invoke(c, "models:setDefault", modelId, Value(Undefined))
    /\ settings' = [settings EXCEPT !.defaultModel = modelId]
    /\ UNCHANGED <<threads, watches, fs, hitlVars, modelVars>>

\* ModelsSetApiKey with the bug of keeping the key in the settings store
ModelsSetApiKeyInSettings(c, provider, apiKey) ==
    /\ Invoke(c, "models:setApiKey", <<provider>> \o apiKey, Value(Undefined))
    /\ settings' = [settings EXCEPT !.defaultModel = apiKey]
    /\ UNCHANGED <<threads, watches, fs, hitlVars, modelVars>>

\* models:setApiKey
ModelsSetApiKey(c, provider, apiKey) ==
    /\ Invoke(c, "models:setApiKey", <<provider>> \o apiKey, Value(Undefined))
    /\ apiKeys' = SetApiKey(apiKeys, provider, apiKey)
    /\ UNCHANGED <<threads, settings, watches, fs, hitlVars, catalog>>

\* models:getApiKey: getApiKey(provider) ?? null
ModelsGetApiKey(c, provider) ==
    /\ Invoke(c, "models:getApiKey", <<provider>>,
              Value(IF GetApiKey(apiKeys, provider) = Undefined THEN Null
                    ELSE GetApiKey(apiKeys, provider)))
    /\ UNCHANGED <<threads, settings, watches, fs, hitlVars, modelVars>>

\* models:deleteApiKey
ModelsDeleteApiKey(c, provider) ==
    /\ Invoke(c, "models:deleteApiKey", <<provider>>, Value(Undefined))
    /\ apiKeys' = DeleteApiKey(apiKeys, provider)
    /\ UNCHANGED <<threads, settings, watches, fs, hitlVars, catalog>>

\* at startup no provider has a key and the catalog is as written
InitModels ==
    /\ apiKeys = [p \in { PROVIDERS[i] : i \in DOMAIN PROVIDERS } |-> Undefined]
    /\ catalog = AVAILABLE_MODELS

(***************************************************************************)
(* The binding and watcher lifecycle: workspace:get, set, select and       *)
(* loadFromDisk, interleaved at their awaits.                              *)
(***************************************************************************)
\* the disk: /w with a subdirectory, a hidden directory and node_modules,
\* a sibling /wX, a file /a outside; /v does not exist
DefaultFs ==
    [dirs  |-> {Slash, WorkA, WorkA \o <<"/", "d">>, WorkA \o <<"/", ".", "g">>,
                WorkA \o Slash \o NodeModules, WorkX},
     files |-> {WorkA \o <<"/", "a">>, WorkA \o <<"/", "d", "/", "a">>,
                WorkA \o <<"/", ".", "g", "/", "c">>,
                WorkA \o Slash \o NodeModules \o <<"/", "m">>,
                WorkX \o <<"/", "a">>, <<"/", "a">>},
     bad   |-> {}]

\* the paths a renderer sends to workspace:set
SetPaths == {Null, EmptyStr, WorkA, WorkB}

\* the folders the operator picks in the dialog
SelectPaths == {WorkA, WorkX}

\* a thread row as the thread store creates it, with or without metadata
FreshThreads ==
    { [exists |-> TRUE, metadata |-> NullColumn],
      [exists |-> TRUE,
       metadata |-> JsonStringify([EmptyObj EXCEPT !.title = <<"T">>])] }

\* no tool call has been proposed
InitHitl ==
    /\ tools = [t \in {} |-> 0]
    /\ events = <<>>

\* thread t1 exists and is unbound, t2 is an id no thread has
Init ==
    /\ threads \in { [s \in Sessions |-> IF s = "t1" THEN th ELSE NoThread] :
                        th \in FreshThreads }
    /\ settings = [workspacePath |-> Undefined, defaultModel |-> Undefined]
    /\ watches = [s \in Sessions |-> <<>>]
    /\ calls = [c \in Slots |-> IdleCall]
    /\ last = 0
    /\ fs = DefaultFs
    /\ InitHitl
    /\ InitModels

Next ==
    \E c \in Slots :
        \/ Reply(c)
        \/ GetGlobal(c)
        \/ \E sid \in Sessions : GetCall(c, sid)
        \/ GetRun(c)
        \/ \E p \in SetPaths : SetGlobal(c, p)
        \/ \E sid \in Sessions, p \in SetPaths : SetCall(c, sid, p)
        \/ SetRun(c)
        \/ \E sid \in Sessions \cup {NoSession} : SelectCall(c, sid)
        \/ SelectCancel(c)
        \/ \E p \in SelectPaths : SelectGlobal(c, p)
        \/ \E p \in SelectPaths : SelectPick(c, p)
        \/ SelectRun(c)
        \/ \E sid \in Sessions : LoadCall(c, sid)
        \/ LoadStart(c)
        \/ LoadFinish(c)

Spec == Init /\ [][Next]_vars

(***************************************************************************)
(* Properties of the binding and watcher lifecycle.                        *)
(***************************************************************************)
Done(c) == calls[c].pc = "done"

\* the path a returned invocation handed to startWatching, or Null
StartedPath(call) ==
    IF call.op = "set" /\ GetThread(call.sid).exists /\ Truthy(call.arg)
      THEN call.arg
    ELSE IF call.op = "select" /\ GetThread(call.sid).exists
            /\ call.res.value # Null
      THEN call.res.value
    ELSE IF call.op = "load" /\ call.res.tag = "ok"
      THEN call.res.workspacePath
    ELSE Null

\* C3: whenever a session is watched, the watched path is the session's
\* persisted binding path, under every interleaving of set, select and
\* loadFromDisk.
C3_WatchOnBindingPath ==
    \A sid \in Sessions :
        watches[sid] # <<>> => watches[sid] = <<BoundPath(sid)>>

\* C5: a session is watched if and only if it has an active binding.
C5_WatchedIffBound ==
    \A sid \in Sessions :
        (watches[sid] # <<>>) <=> Truthy(BoundPath(sid))

\* C6: a session never has more than one watch, and when an invocation
\* that started a watch has just returned, the session's one watch is on
\* the path of that start, whatever earlier starts watched.
C6_OneWatchOnLatestStart ==
    /\ \A sid \in Sessions : Len(watches[sid]) <= 1
    /\ last # 0 /\ StartedPath(calls[last]) # Null
          => watches[calls[last].sid] = <<StartedPath(calls[last])>>

\* two starts for one session with different paths have returned, and the
\* watch is on the second
C6_Witness ==
    \E c1, c2 \in Slots :
        /\ c1 # c2 /\ last = c2 /\ Done(c1) /\ Done(c2)
        /\ calls[c1].sid = calls[c2].sid
        /\ StartedPath(calls[c1]) # Null /\ StartedPath(calls[c2]) # Null
        /\ StartedPath(calls[c1]) # StartedPath(calls[c2])
        /\ watches[calls[c2].sid] = <<StartedPath(calls[c2])>>

\* C7: when workspace:set with path null has just returned for a session,
\* the session has no watch, whether or not it had one before.
C7_SetNullUnwatched ==
    last # 0 /\ calls[last].op = "set" /\ calls[last].sid \in Sessions
             /\ calls[last].arg = Null
        => /\ watches[calls[last].sid] = <<>>
           /\ calls[last].res.tag = "value"

\* set(null) has returned for a session that an earlier invocation had
\* started a watch for, and the session is unwatched
C7_Witness ==
    \E c1, c2 \in Slots :
        /\ c1 # c2 /\ last = c2 /\ Done(c1) /\ Done(c2)
        /\ calls[c2].op = "set" /\ calls[c2].arg = Null
        /\ calls[c2].sid = calls[c1].sid
        /\ StartedPath(calls[c1]) # Null
        /\ watches[calls[c2].sid] = <<>>

(***************************************************************************)
(* The read handlers on their own: workspace:readFile, readBinaryFile and  *)
(* loadFromDisk for every virtual path of up to MaxSegs segments, against  *)
(* a thread left bound or unbound by earlier set calls.                    *)
(***************************************************************************)
\* the longest virtual path, in segments
MaxSegs == 3

\* the segments virtual paths are made of
VSegs == {<<"a">>, <<"d">>, <<"w", "X">>, DotSeg, DotDotSeg}

\* the virtual paths a renderer sends, with and without the leading '/'
VPaths ==
    LET segSeqs == UNION { [1 .. k -> VSegs] : k \in 0 .. MaxSegs }
    IN  { JoinSegs(ss) : ss \in segSeqs }
            \cup { Slash \o JoinSegs(ss) : ss \in segSeqs }

\* the workspace roots a thread is bound to: plain, with a trailing '/',
\* and a nested one
ReadRoots == {WorkA, WorkA \o Slash, WorkA \o <<"/", "d">>}

\* a thread as workspace:set leaves it: bound to p, or with a cleared
\* binding
BoundThread(p) ==
    [exists |-> TRUE,
     metadata |-> JsonStringify([EmptyObj EXCEPT !.workspacePath = p])]

\* t1 is unbound, cleared or bound (and then watched); t2 has no thread;
\* the global setting is unset or set
InitRead ==
    /\ \E th \in FreshThreads \cup { BoundThread(p) : p \in ReadRoots \cup {Null} } :
          /\ threads = [s \in Sessions |-> IF s = "t1" THEN th ELSE NoThread]
          /\ watches = [s \in Sessions |->
                IF s = "t1" /\ Truthy(MetadataOf(th).workspacePath)
                  THEN <<MetadataOf(th).workspacePath>> ELSE <<>>]
    /\ settings \in { [workspacePath |-> p, defaultModel |-> Undefined] :
                        p \in {Undefined, WorkA} }
    /\ calls = [c \in Slots |-> IdleCall]
    /\ last = 0
    /\ fs = DefaultFs
    /\ InitHitl
    /\ InitModels

NextRead ==
    \/ Reply(1)
    \/ \E op \in ReadOps, sid \in Sessions, p \in VPaths : ReadCall(1, op, sid, p)
    \/ ReadStart(1)
    \/ ReadStat(1)
    \/ ReadContent(1)
    \/ \E sid \in Sessions : LoadCall(1, sid)
    \/ LoadStart(1)
    \/ LoadFinish(1)

SpecRead == InitRead /\ [][NextRead]_vars

\* the segments of the absolute normalized form of a path
Components(p) == NormalizeSegs(Split(PathResolve(p)), <<>>, FALSE)

\* p is the root or lies under it, component by component
UnderRoot(root, p) ==
    LET r == Components(root)
        q == Components(p)
    IN  Len(r) <= Len(q) /\ SubSeq(q, 1, Len(r)) = r

\* a read invocation that got past the binding check and has returned
ReadDone(c) == Done(c) /\ calls[c].op \in ReadOps /\ Truthy(calls[c].loc)

\* C1: a read returns content only when the joined, normalized path lies
\* under the bound root, and every path that normalizes outside the root
\* is answered with the access-denied failure.
C1_ContentOnlyUnderRoot ==
    \A c \in Slots :
        ReadDone(c) =>
            LET target == FullPath(calls[c].loc, calls[c].arg)
            IN  /\ calls[c].res.tag = "ok" => UnderRoot(calls[c].loc, target)
                /\ ~UnderRoot(calls[c].loc, target)
                      => calls[c].res = Failure(ErrAccessDenied)

\* the text of p starts with the text of root, but p is not under root
SiblingByPrefix(root, p) ==
    StartsWith(PathResolve(p), PathResolve(root)) /\ ~UnderRoot(root, p)

\* C2: the containment check is component-wise: a path that normalizes to
\* a sibling whose name merely starts with the root's text is answered
\* with the access-denied failure.
C2_SiblingPrefixDenied ==
    \A c \in Slots :
        ReadDone(c) /\ SiblingByPrefix(calls[c].loc, FullPath(calls[c].loc, calls[c].arg))
            => calls[c].res.error = ErrAccessDenied

\* the session has no thread, no metadata or no workspacePath in it
Unbound(sid) ==
    \/ sid \notin Sessions
    \/ ~threads[sid].exists
    \/ threads[sid].metadata.isNull
    \/ ~Truthy(threads[sid].metadata.obj.workspacePath)

\* C8: for a session without a binding, readFile, readBinaryFile and
\* loadFromDisk return the 'No workspace folder linked' failure, issue no
\* fs call and start no watch.
C8_NoWorkspaceLinked ==
    \A c \in Slots :
        Done(c) /\ calls[c].op \in ReadOps \cup {"load"} /\ Unbound(calls[c].sid)
            => /\ calls[c].res = Failure(ErrNoWorkspace)
               /\ calls[c].io = {}
               /\ watches[calls[c].sid] = <<>>

\* a read for the unknown session t2 and a listing for the thread without
\* binding have been answered with the failure
C8_Witness ==
    \E c \in Slots :
        /\ Done(c) /\ Unbound(calls[c].sid)
        /\ calls[c].op \in ReadOps \cup {"load"}
        /\ calls[c].res.error = ErrNoWorkspace
        /\ settings.workspacePath = WorkA

(***************************************************************************)
(* workspace:loadFromDisk over every tree: t1 is bound to /w, whose        *)
(* content is any parent-closed part of TreeNodes, with up to MaxBad       *)
(* entries on which fs.readdir or fs.stat fails.                           *)
(***************************************************************************)
\* how many entries of the tree fail with an I/O error
MaxBad == 1

\* the entries /w may hold: a directory with a file, a hidden file and a
\* nested directory; a hidden directory; node_modules; a file whose name
\* only starts with node_modules
TreeNodes ==
    LET S == WorkA \o <<"/", "s">>
        G == WorkA \o <<"/", ".", "g">>
        N == WorkA \o Slash \o NodeModules
    IN  { [path |-> S, dir |-> TRUE],
          [path |-> S \o <<"/", "a">>, dir |-> FALSE],
          [path |-> S \o <<"/", ".", "h">>, dir |-> FALSE],
          [path |-> S \o <<"/", "t">>, dir |-> TRUE],
          [path |-> S \o <<"/", "t", "/", "b">>, dir |-> FALSE],
          [path |-> G, dir |-> TRUE],
          [path |-> G \o <<"/", "c">>, dir |-> FALSE],
          [path |-> N, dir |-> TRUE],
          [path |-> N \o <<"/", "m">>, dir |-> FALSE],
          [path |-> N \o <<"x">>, dir |-> FALSE] }

\* every entry's parent is /w or a directory of the tree
ParentClosed(nodes) ==
    \A n \in nodes :
        \/ DirName(n.path) = WorkA
        \/ [path |-> DirName(n.path), dir |-> TRUE] \in nodes

Trees ==
    { [dirs  |-> {Slash, WorkA} \cup { n.path : n \in { x \in nodes : x.dir } },
       files |-> { n.path : n \in { x \in nodes : ~x.dir } },
       bad   |-> bad] :
        nodes \in { ns \in SUBSET TreeNodes : ParentClosed(ns) },
        bad \in { b \in SUBSET ({WorkA} \cup { n.path : n \in TreeNodes }) :
                     Cardinality(b) <= MaxBad } }

InitSnapshot ==
    /\ threads = [s \in Sessions |->
                    IF s = "t1" THEN BoundThread(WorkA) ELSE NoThread]
    /\ \E w \in {<<>>, <<WorkA>>} :
          watches = [s \in Sessions |-> IF s = "t1" THEN w ELSE <<>>]
    /\ settings = [workspacePath |-> Undefined, defaultModel |-> Undefined]
    /\ calls = [c \in Slots |-> IdleCall]
    /\ last = 0
    /\ fs \in { t \in Trees : t.bad \subseteq t.dirs \cup t.files }
    /\ InitHitl
    /\ InitModels

NextSnapshot ==
    \/ Reply(1)
    \/ \E sid \in Sessions : LoadCall(1, sid)
    \/ LoadStart(1)
    \/ LoadFinish(1)

SpecSnapshot == InitSnapshot /\ [][NextSnapshot]_vars

\* a name the listing leaves out
HiddenOrNodeModules(name) == (Len(name) > 0 /\ name[1] = ".") \/ name = NodeModules

\* the segments of p below root
RelSegs(root, p) ==
    SubSeq(Components(p), Len(Components(root)) + 1, Len(Components(p)))

\* the entries below root that are reached through entries not left out
Listable(tree, root) ==
    { p \in tree.dirs \cup tree.files :
        /\ UnderRoot(root, p) /\ Components(p) # Components(root)
        /\ \A i \in 1 .. Len(RelSegs(root, p)) :
              ~HiddenOrNodeModules(RelSegs(root, p)[i]) }

\* a listing that loadFromDisk returned with success
Listed(c) == Done(c) /\ calls[c].op = "load" /\ calls[c].res.tag = "ok"

\* C9: a returned listing has no entry with a component that starts with
\* '.' or is 'node_modules', no such directory was read, and every other
\* entry reached through listed directories is in it exactly once, under
\* a virtual path that starts with '/'.
C9_ListingFiltered ==
    \A c \in Slots :
        Listed(c) =>
            LET root == calls[c].res.workspacePath
                files == calls[c].res.files
            IN  /\ \A i \in 1 .. Len(files) :
                      /\ StartsWith(files[i].path, Slash)
                      /\ \A k \in 1 .. Len(Split(Tail(files[i].path))) :
                            ~HiddenOrNodeModules(Split(Tail(files[i].path))[k])
                /\ \A p \in Listable(fs, root) :
                      \E i \in 1 .. Len(files) :
                          /\ files[i].path = Slash \o JoinSegs(RelSegs(root, p))
                          /\ files[i].is_dir = (p \in fs.dirs)
                          /\ \A j \in 1 .. Len(files) :
                                files[j].path = files[i].path => j = i
                /\ Len(files) = Cardinality(Listable(fs, root))
                /\ \A op \in calls[c].io :
                      op[1] = "readdir" =>
                          \A k \in 1 .. Len(RelSegs(root, op[2])) :
                              ~HiddenOrNodeModules(RelSegs(root, op[2])[k])

\* a listing was returned for the tree that holds every entry of TreeNodes
C9_Witness ==
    \E c \in Slots :
        /\ Listed(c)
        /\ fs.dirs \cup fs.files = {Slash, WorkA} \cup { n.path : n \in TreeNodes }
        /\ Len(calls[c].res.files) = 5

\* the traversal of a bound root that has returned
Traversed(c) == Done(c) /\ calls[c].op = "load" /\ Truthy(calls[c].loc)

\* fs.readdir of the root succeeds
RootOpens(tree, root) == ~IoFails(tree, root) /\ IsDirectory(tree, root)

\* C10 as the spec states it: when the root opens, a failing subdirectory
\* only costs its subtree and the call returns success.
C10_SubtreeFailureTolerated ==
    \A c \in Slots :
        Traversed(c) /\ RootOpens(fs, calls[c].loc) => calls[c].res.tag = "ok"

\* C10 as the code has it: the call returns success exactly when the root
\* and every entry reached through listed directories can be read; any
\* failing fs.readdir or fs.stat makes it return the failure with the
\* error and an empty listing.
C10_AnyFailureFailsCall ==
    \A c \in Slots :
        Traversed(c) =>
            LET root == calls[c].loc
                failing == (Listable(fs, root) \cup {OsPath(root)}) \cap fs.bad
            IN  /\ calls[c].res.tag = "ok" <=> (RootOpens(fs, root) /\ failing = {})
                /\ calls[c].res.tag # "ok" => calls[c].res = Failure(ErrIo)

\* the root opened, a listed subdirectory could not be read, and the call
\* returned the failure
C10_Witness ==
    \E c \in Slots :
        /\ Traversed(c) /\ RootOpens(fs, calls[c].loc)
        /\ \E d \in fs.dirs \cap fs.bad : d \in Listable(fs, calls[c].loc)
        /\ calls[c].res = Failure(ErrIo)

(***************************************************************************)
(* The HITL protocol of the event stream (spec 4.7), over the types of     *)
(* models.ts: ToolCall, ToolResult, HITLRequest, HITLDecision and          *)
(* StreamEvent.  The runtime that drives it is not part of these sources.  *)
(***************************************************************************)
\* how many tool calls the agent proposes
MaxTools == 2

ToolIds == 1 .. MaxTools

\* HITLDecision['type']
Decisions == {"approve", "reject", "edit"}

\* a tool call nobody has proposed yet
NoTool == [state |-> "None", allowed |-> {}, decision |-> "none", decidedAt |-> 0]

\* a StreamEvent about a tool call: its type and the tool-call id
Event(type, id) == [type |-> type, id |-> id]

\* the agent proposes tool call t: a tool_call event
Propose(t) ==
    /\ tools[t].state = "None"
    /\ tools' = [tools EXCEPT ![t].state = "Proposed"]
    /\ events' = Append(events, Event("tool_call", t))
    /\ UNCHANGED <<wsVars, modelVars>>

\* the request for t is put to the operator: an interrupt event carrying
\* the HITLRequest with its allowed_decisions
Interrupt(t, allowed) ==
    /\ tools[t].state = "Proposed"
    /\ tools' = [tools EXCEPT ![t].state = "AwaitingDecision",
                              ![t].allowed = allowed]
    /\ events' = Append(events, Event("interrupt", t))
    /\ UNCHANGED <<wsVars, modelVars>>

\* the state a decision leads to
Decided(d) == IF d = "approve" THEN "Approved"
              ELSE IF d = "edit" THEN "Edited"
              ELSE "Rejected"

\* the operator's HITLDecision for t, one of the allowed kinds
Decide(t, d) ==
    /\ tools[t].state = "AwaitingDecision"
    /\ d \in tools[t].allowed
    /\ tools' = [tools EXCEPT ![t].state = Decided(d),
                              ![t].decision = d,
                              ![t].decidedAt = Len(events)]
    /\ UNCHANGED <<events, wsVars, modelVars>>

\* the session is interrupted or cancelled: every request still awaiting
\* its decision is resolved as rejected
Cancel ==
    /\ \E t \in ToolIds : tools[t].state = "AwaitingDecision"
    /\ tools' = [t \in ToolIds |->
                   IF tools[t].state = "AwaitingDecision"
                     THEN [tools[t] EXCEPT !.state = "Rejected",
                                           !.decision = "reject",
                                           !.decidedAt = Len(events)]
                     ELSE tools[t]]
    /\ UNCHANGED <<events, wsVars, modelVars>>

\* Execute with the bug of not waiting for the decision
ExecuteUngated(t) ==
    /\ tools[t].state \in {"AwaitingDecision", "Approved", "Edited", "Rejected"}
    /\ tools' = [tools EXCEPT ![t].state = "Executing"]
    /\ UNCHANGED <<events, wsVars, modelVars>>

\* an approved or edited tool call starts to execute
Execute(t) ==
    /\ tools[t].state \in {"Approved", "Edited"}
    /\ tools' = [tools EXCEPT ![t].state = "Executing"]
    /\ UNCHANGED <<events, wsVars, modelVars>>

\* the execution ends: a tool_result event, an error result when it failed
Finish(t, ok) ==
    /\ tools[t].state = "Executing"
    /\ tools' = [tools EXCEPT ![t].state = IF ok THEN "Completed" ELSE "Failed"]
    /\ events' = Append(events, Event("tool_result", t))
    /\ UNCHANGED <<wsVars, modelVars>>

\* a rejected tool call is skipped
Skip(t) ==
    /\ tools[t].state = "Rejected"
    /\ tools' = [tools EXCEPT ![t].state = "Skipped"]
    /\ UNCHANGED <<events, wsVars, modelVars>>

InitHitlProtocol ==
    /\ threads = [s \in Sessions |->
                    IF s = "t1" THEN BoundThread(WorkA) ELSE NoThread]
    /\ watches = [s \in Sessions |-> IF s = "t1" THEN <<WorkA>> ELSE <<>>]
    /\ settings = [workspacePath |-> Undefined, defaultModel |-> Undefined]
    /\ calls = [c \in Slots |-> IdleCall]
    /\ last = 0
    /\ fs = DefaultFs
    /\ tools = [t \in ToolIds |-> NoTool]
    /\ events = <<>>
    /\ InitModels

NextHitl ==
    \/ \E t \in ToolIds :
          \/ Propose(t)
          \/ \E allowed \in SUBSET Decisions \ {{}} : Interrupt(t, allowed)
          \/ \E d \in Decisions : Decide(t, d)
          \/ Execute(t)
          \/ \E ok \in BOOLEAN : Finish(t, ok)
          \/ Skip(t)
    \/ Cancel

SpecHitl == InitHitlProtocol /\ [][NextHitl]_vars

\* C4: every tool_result event in the stream is for a tool call whose
\* request was resolved approve or edit before the event was produced; a
\* tool call resolved reject has no tool_result.
C4_ResultOnlyAfterApproval ==
    \A i \in 1 .. Len(events) :
        events[i].type = "tool_result" =>
            /\ tools[events[i].id].decision \in {"approve", "edit"}
            /\ tools[events[i].id].decidedAt < i

\* one tool call was approved and produced its result, another was
\* rejected and skipped without one
C4_Witness ==
    \E t, u \in ToolIds :
        /\ tools[t].decision = "approve" /\ tools[t].state \in {"Completed", "Failed"}
        /\ \E i \in 1 .. Len(events) : events[i] = Event("tool_result", t)
        /\ tools[u].decision = "reject" /\ tools[u].state = "Skipped"
        /\ \A i \in 1 .. Len(events) : events[i] # Event("tool_result", u)

(***************************************************************************)
(* More properties of the read handlers, under SpecRead.                   *)
(***************************************************************************)
\* a read invocation whose binding was found
ReadBound(c) == calls[c].op \in ReadOps /\ Truthy(calls[c].loc)

\* the security check of the handlers, on the text of the resolved paths
FailsCheck(root, filePath) ==
    ~StartsWith(PathResolve(PathJoin(root, RelativePath(filePath))),
                PathResolve(root))

\* C11: the sandbox check comes before any filesystem access: a read
\* request whose path fails the check has issued no stat and no read, at
\* any point of its execution, and is answered with the access-denied
\* failure.
C11_DeniedTouchesNoDisk ==
    \A c \in Slots :
        ReadBound(c) /\ FailsCheck(calls[c].loc, calls[c].arg)
            => /\ calls[c].io = {}
               /\ Done(c)
               /\ calls[c].res = Failure(ErrAccessDenied)

\* a read of a file that exists outside the workspace was denied without
\* any filesystem call
C11_Witness ==
    \E c \in Slots :
        /\ ReadBound(c) /\ Done(c)
        /\ FailsCheck(calls[c].loc, calls[c].arg)
        /\ Exists(fs, FullPath(calls[c].loc, calls[c].arg))
        /\ ~IsDirectory(fs, FullPath(calls[c].loc, calls[c].arg))
        /\ calls[c].io = {}

\* C12: a read whose path names a directory inside the workspace, the root
\* included, is answered with the is-a-directory failure; a successful read
\* refers to a file and carries its size and modification time.
C12_DirectoryRefused ==
    \A c \in Slots :
        ReadDone(c) =>
            LET target == FullPath(calls[c].loc, calls[c].arg)
            IN  /\ UnderRoot(calls[c].loc, target) /\ OsPath(target) \in fs.dirs
                    => calls[c].res = Failure(ErrIsDirectory)
                /\ calls[c].res.tag = "ok"
                    => /\ OsPath(target) \in fs.files
                       /\ calls[c].res.size = Len(OsPath(target))
                       /\ calls[c].res.modified_at = <<"iso">> \o OsPath(target)

\* the virtual path '/' was sent, the root was statted and the read was
\* refused as a directory
C12_Witness ==
    \E c \in Slots :
        /\ ReadDone(c)
        /\ calls[c].arg = Slash
        /\ calls[c].res = Failure(ErrIsDirectory)
        /\ <<"stat", calls[c].full>> \in calls[c].io

(***************************************************************************)
(* More properties of the binding and watcher lifecycle, under Spec.       *)
(***************************************************************************)
\* slot c's invocation takes a step
Steps(c) == calls'[c] # calls[c] /\ calls'[c].op # "none"

\* slot c's invocation returns in this step
Returns(c) == calls[c].pc # "done" /\ calls'[c].pc = "done"

\* the workspacePath field of a session's persisted metadata, Null when the
\* session has no thread, no metadata or no such field
Binding(sid) ==
    IF sid \in Sessions /\ threads[sid].exists /\ ~threads[sid].metadata.isNull
         /\ threads[sid].metadata.obj.workspacePath # Undefined
      THEN threads[sid].metadata.obj.workspacePath
      ELSE Null

\* C13: a step of workspace:get, set or select without a session id leaves
\* every session's binding and watch alone, a get of that kind returns the
\* global slot and a set writes it; a step of the same operations with a
\* session id leaves the global slot alone, and a get of that kind returns
\* the session's binding or null, never the global slot.
C13_GlobalSlotIndependent ==
    [][\A c \in Slots :
          Steps(c) /\ calls'[c].op \in {"get", "set", "select"} =>
              IF calls'[c].sid = NoSession
                THEN /\ threads' = threads /\ watches' = watches
                     /\ calls'[c].op = "get"
                          => calls'[c].res = Value(GlobalWorkspace)
                     /\ calls'[c].op = "set"
                          => settings'.workspacePath =
                                IF calls'[c].arg \in {Null, EmptyStr} THEN Undefined
                                ELSE calls'[c].arg
                ELSE /\ settings' = settings
                     /\ calls'[c].op = "get" /\ Returns(c)
                          => calls'[c].res.value \in
                                {Null, Binding(calls'[c].sid)}]_vars

\* the global slot holds one path while a session is bound to and watched
\* on another: a global set has just returned, and a get of the session
\* returned the session's binding
C13_Witness ==
    \E c1, c2 \in Slots :
        /\ last = c1 /\ Done(c1) /\ calls[c1].op = "set"
        /\ calls[c1].sid = NoSession /\ calls[c1].arg = WorkB
        /\ settings.workspacePath = WorkB
        /\ Binding("t1") = WorkA /\ watches["t1"] = <<WorkA>>
        /\ Done(c2) /\ calls[c2].op = "get" /\ calls[c2].sid = "t1"
        /\ calls[c2].res = Value(WorkA)

\* what workspace:get answers for a session in the current state
Answer(sid) ==
    IF Binding(sid) \in {Null, EmptyStr} THEN Null ELSE Binding(sid)

\* the fields of a session's metadata other than the binding
OtherFields(sid) == threads[sid].metadata.obj.title

Secrets == {<<"sk-1">>, <<"sk-2">>}

\* the providers a renderer names
SentProviders == {"anthropic", "openai"}

\* the model ids a renderer selects as default
ModelIds == { AVAILABLE_MODELS[i].id : i \in DOMAIN AVAILABLE_MODELS }

InitRegistry ==
    /\ threads = [s \in Sessions |->
                    IF s = "t1" THEN BoundThread(WorkA) ELSE NoThread]
    /\ watches = [s \in Sessions |-> IF s = "t1" THEN <<WorkA>> ELSE <<>>]
    /\ settings = [workspacePath |-> Undefined, defaultModel |-> Undefined]
    /\ calls = [c \in Slots |-> IdleCall]
    /\ last = 0
    /\ fs = DefaultFs
    /\ InitHitl
    /\ InitModels

NextRegistry ==
    \/ Reply(1)
    \/ ModelsList(1)
    \/ ModelsListProviders(1)
    \/ ModelsGetDefault(1)
    \/ \E id \in ModelIds : ModelsSetDefault(1, id)
    \/ \E p \in SentProviders, k \in Secrets : ModelsSetApiKey(1, p, k)
    \/ \E p \in SentProviders : ModelsGetApiKey(1, p)
    \/ \E p \in SentProviders : ModelsDeleteApiKey(1, p)
    \/ GetGlobal(1)
    \/ \E p \in SetPaths : SetGlobal(1, p)
    \/ SelectCall(1, NoSession)
    \/ SelectCancel(1)
    \/ \E p \in SelectPaths : SelectGlobal(1, p)

SpecRegistry == InitRegistry /\ [][NextRegistry]_vars

\* C15: keys and settings are separate stores: a step of models:setApiKey
\* or models:deleteApiKey leaves the settings store as it was, a step of
\* models:setDefault or of a global workspace set or select leaves the
\* credential store as it was, and no field of the settings store ever
\* holds a key.
C15_StoresSeparate ==
    /\ [][\A c \in Slots :
            Steps(c) =>
              /\ calls'[c].op \in {"models:setApiKey", "models:deleteApiKey"}
                    => settings' = settings
              /\ calls'[c].op \in {"models:setDefault", "set", "select"}
                    => apiKeys' = apiKeys]_vars
    /\ [](/\ settings.defaultModel \notin Secrets
          /\ settings.workspacePath \notin Secrets)

\* a key was just stored while the settings store holds a default model
\* and a global workspace path, and both stores hold what was put in them
C15_Witness ==
    /\ last # 0 /\ calls[last].op = "models:setApiKey"
    /\ \E p \in SentProviders : apiKeys[p] \in Secrets
    /\ settings.defaultModel \in ModelIds
    /\ settings.workspacePath = WorkA

\* C16: when models:list has just returned, its result has the catalog's
\* entries in order, each with available equal to whether its provider has
\* a key in the credential store; when a key has just been set or deleted
\* the provider has, or has not, a key; and the catalog itself never
\* changes.
C16_AvailableIsHasKey ==
    /\ [](last # 0 =>
            /\ calls[last].op = "models:list" =>
                  LET listed == calls[last].res.value
                  IN  /\ DOMAIN listed = DOMAIN AVAILABLE_MODELS
                      /\ \A i \in DOMAIN listed :
                            /\ listed[i].id = AVAILABLE_MODELS[i].id
                            /\ listed[i].provider = AVAILABLE_MODELS[i].provider
                            /\ listed[i].available =
                                  (apiKeys[listed[i].provider] # Undefined)
            /\ calls[last].op = "models:setApiKey"
                  => apiKeys[Head(calls[last].arg)] # Undefined
            /\ calls[last].op = "models:deleteApiKey"
                  => apiKeys[Head(calls[last].arg)] = Undefined)
    /\ [](catalog = AVAILABLE_MODELS)

\* models:list has just returned with one provider's models available and
\* another's not, although the catalog stores available: true for all
C16_Witness ==
    /\ last # 0 /\ calls[last].op = "models:list"
    /\ \E i, j \in DOMAIN catalog :
          /\ calls[last].res.value[i].available
          /\ ~calls[last].res.value[j].available
          /\ catalog[j].available

(***************************************************************************)
(* The read handlers against every state of the thread store and the       *)
(* disk: a missing thread, metadata that is absent, not JSON or without a  *)
(* binding, a binding to a directory that is gone, failing entries.        *)
(***************************************************************************)
\* a thread whose metadata column does not parse
CorruptThread == [exists |-> TRUE, metadata |-> CorruptColumn]

\* the entries of the disk whose reads may fail
FailingEntries == {{}, {WorkA \o <<"/", "a">>}, {WorkA \o <<"/", "d">>}}

InitRobust ==
    /\ \E th \in FreshThreads \cup {BoundThread(WorkA), BoundThread(WorkB),
                                     CorruptThread} :
          threads = [s \in Sessions |-> IF s = "t1" THEN th ELSE NoThread]
    /\ watches = [s \in Sessions |-> <<>>]
    /\ settings = [workspacePath |-> Undefined, defaultModel |-> Undefined]
    /\ calls = [c \in Slots |-> IdleCall]
    /\ last = 0
    /\ fs \in { [DefaultFs EXCEPT !.bad = b] : b \in FailingEntries }
    /\ InitHitl
    /\ InitModels

SpecRobust == InitRobust /\ [][NextRead]_vars

\* C17: every returned invocation of loadFromDisk, readFile and
\* readBinaryFile handed its caller a result object with success true or
\* false; none rejected.
C17_AlwaysDiscriminated ==
    \A c \in Slots :
        Done(c) /\ calls[c].op \in ReadOps \cup {"load"}
            => calls[c].res.tag \in {"ok", "fail"}

(***************************************************************************)
(* The watch of workspace:loadFromDisk, under SpecSnapshot: the session is *)
(* bound, and watched already or not yet (the watcher keeps no state       *)
(* across restarts of the application, the binding does).                  *)
(***************************************************************************)
\* C18: a step of workspace:loadFromDisk changes the watcher state only
\* when it returns {success: true}: a call that fails, for want of a
\* binding or because the traversal raised, leaves every session's watch
\* as it was, and so does every step before the return.
C18_WatchOnlyOnSuccess ==
    [][\A c \in Slots :
          Steps(c) /\ calls'[c].op = "load"
                   /\ ~(Returns(c) /\ calls'[c].res.tag = "ok")
              => watches' = watches]_vars

\* the traversal of a bound session's workspace raised after reading the
\* disk, the call failed and the session, unwatched before, still is
C18_Witness ==
    \E c \in Slots :
        /\ last = c /\ calls[c].op = "load" /\ calls[c].sid = "t1"
        /\ calls[c].res = Failure(ErrIo)
        /\ calls[c].io # {}
        /\ Truthy(Binding("t1"))
        /\ watches["t1"] = <<>>

(***************************************************************************)
(* workspace:set for a session id that no thread has, under Spec.          *)
(***************************************************************************)
\* C19: every step of a workspace:set whose session id has no thread
\* leaves the thread store, the global slot and the watcher as they were,
\* and the call returns null.
C19_SetUnknownSession ==
    [][\A c \in Slots :
          /\ Steps(c) /\ calls'[c].op = "set"
          /\ calls'[c].sid \in Sessions /\ ~threads[calls'[c].sid].exists
          => /\ threads' = threads
             /\ settings' = settings
             /\ watches' = watches
             /\ Returns(c) => calls'[c].res = Value(Null)]_vars

\* a set with a path has just returned null for an id without a thread:
\* there is still no thread and no watch for it, while the global slot and
\* another session's binding hold what they held
C19_Witness ==
    \E c \in Slots :
        /\ last = c /\ calls[c].op = "set" /\ calls[c].sid = "t2"
        /\ calls[c].arg = WorkA /\ calls[c].res = Value(Null)
        /\ ~threads["t2"].exists /\ watches["t2"] = <<>>
        /\ settings.workspacePath = WorkB
        /\ Binding("t1") = WorkA

====
